---- MODULE Spec2Model ----
(***************************************************************************)
(* QR-Studio (src/app.py): a Flask service turning (url, format, theme)    *)
(* into a QR image and a derived file name.                                *)
(*                                                                         *)
(* Strings are sequences of characters; a character is a one-character     *)
(* TLA+ string, and a non-ASCII character is written by its code point:    *)
(*   "U00E9"  LATIN SMALL LETTER E WITH ACUTE   (a Unicode letter)          *)
(*   "U0663"  ARABIC-INDIC DIGIT THREE          (a Unicode digit)           *)
(*   "U2100"  ACCOUNT OF                        (NFKC-normalises to a/c)    *)
(* The characters ";", "@", "]", tab, CR and LF are left out of every      *)
(* input alphabet below: urlparse treats them specially (params, userinfo, *)
(* bracketed hosts, stripped bytes), what it does with them depends on the *)
(* Python release, and none of the properties checked here turns on them.  *)
(***************************************************************************)
EXTENDS Naturals, Sequences, FiniteSets, TLC

VARIABLES nameIn, nameOut,
          body, response, calls,
          sent, request, pc, loc, reply

nameVars == <<nameIn, nameOut>>
httpVars == <<body, response, calls>>
concVars == <<sent, request, pc, loc, reply>>
vars == <<nameIn, nameOut, body, response, calls, sent, request, pc, loc, reply>>

----------------------------------------------------------------------------
(* Character classes, as Python's str and re see them.                     *)

LowerCase == {"a","b","c","d","e","f","g","h","i","j","k","l","m",
              "n","o","p","q","r","s","t","u","v","w","x","y","z"}
UpperCase == {"A","B","C","D","E","F","G","H","I","J","K","L","M",
              "N","O","P","Q","R","S","T","U","V","W","X","Y","Z"}
Digits == {"0","1","2","3","4","5","6","7","8","9"}
AsciiWord == LowerCase \cup UpperCase \cup Digits \cup {"_"}
\* Non-ASCII characters that Python 3's str pattern \w matches.
UnicodeWord == {"U00E9", "U0663"}
\* Characters whose NFKC normalisation contains one of / ? # @ :
NfkcDelimiter == {"U2100"}
NonAscii == UnicodeWord \cup NfkcDelimiter
Whitespace == {" "}

\* re: \w on a str pattern (Unicode-aware), src/app.py:27
IsWordChar(c) == c \in AsciiWord \cup UnicodeWord

----------------------------------------------------------------------------
(* str helpers.                                                            *)

StartsWith(s, p) == Len(s) >= Len(p) /\ SubSeq(s, 1, Len(p)) = p

\* str.find of any character of C, from position from; 0 when there is none
FindAny(s, C, from) ==
  IF \E i \in from..Len(s) : s[i] \in C
    THEN CHOOSE i \in from..Len(s) :
           s[i] \in C /\ \A j \in from..(i - 1) : s[j] \notin C
    ELSE 0

Drop(s, n) == SubSeq(s, n + 1, Len(s))

\* str.replace(old, new): every non-overlapping occurrence, left to right
RECURSIVE Replace(_, _, _)
Replace(s, old, new) ==
  IF s = <<>> THEN <<>>
  ELSE IF StartsWith(s, old) THEN new \o Replace(Drop(s, Len(old)), old, new)
  ELSE <<Head(s)>> \o Replace(Tail(s), old, new)

\* str.split(sep)[0]: the text before the first sep
BeforeFirst(s, sep) ==
  LET i == FindAny(s, {sep}, 1) IN IF i = 0 THEN s ELSE SubSeq(s, 1, i - 1)

\* str.rstrip(chars)
RECURSIVE RStrip(_, _)
RStrip(s, C) ==
  IF s # <<>> /\ s[Len(s)] \in C THEN RStrip(SubSeq(s, 1, Len(s) - 1), C) ELSE s

\* str.lstrip(chars)
RECURSIVE LStrip(_, _)
LStrip(s, C) == IF s # <<>> /\ Head(s) \in C THEN LStrip(Tail(s), C) ELSE s

\* str.strip()
Strip(s) == LStrip(RStrip(s, Whitespace), Whitespace)

\* str.lower() on the ASCII letters; every other character is unchanged here
LowerOf == [c \in UpperCase |->
  CASE c = "A" -> "a" [] c = "B" -> "b" [] c = "C" -> "c" [] c = "D" -> "d"
    [] c = "E" -> "e" [] c = "F" -> "f" [] c = "G" -> "g" [] c = "H" -> "h"
    [] c = "I" -> "i" [] c = "J" -> "j" [] c = "K" -> "k" [] c = "L" -> "l"
    [] c = "M" -> "m" [] c = "N" -> "n" [] c = "O" -> "o" [] c = "P" -> "p"
    [] c = "Q" -> "q" [] c = "R" -> "r" [] c = "S" -> "s" [] c = "T" -> "t"
    [] c = "U" -> "u" [] c = "V" -> "v" [] c = "W" -> "w" [] c = "X" -> "x"
    [] c = "Y" -> "y" [] c = "Z" -> "z"]
Lower(s) == [i \in 1..Len(s) |-> IF s[i] \in UpperCase THEN LowerOf[s[i]] ELSE s[i]]

----------------------------------------------------------------------------
(* urllib.parse.urlparse, as far as get_domain_name uses it: the netloc    *)
(* and the path, or the ValueError it raises.                              *)

SchemeChars == LowerCase \cup UpperCase \cup Digits \cup {"+", "-", "."}

\* scheme, rest: the text before the first ":" when it is a scheme
SplitScheme(url) ==
  LET i == FindAny(url, {":"}, 1) IN
  IF i > 1 /\ url[1] \in LowerCase \cup UpperCase
       /\ \A j \in 1..(i - 1) : url[j] \in SchemeChars
    THEN [scheme |-> Lower(SubSeq(url, 1, i - 1)), rest |-> Drop(url, i)]
    ELSE [scheme |-> <<>>, rest |-> url]

\* _splitnetloc(url, 2): the netloc runs up to the first of / ? #
SplitNetloc(rest) ==
  IF StartsWith(rest, <<"/", "/">>)
    THEN LET d == FindAny(rest, {"/", "?", "#"}, 3) IN
         IF d = 0 THEN [netloc |-> Drop(rest, 2), rest |-> <<>>]
         ELSE [netloc |-> SubSeq(rest, 3, d - 1), rest |-> Drop(rest, d - 1)]
    ELSE [netloc |-> <<>>, rest |-> rest]

Contains(s, c) == \E i \in 1..Len(s) : s[i] = c

\* ValueError("Invalid IPv6 URL"): a bracket without its partner
InvalidIPv6(netloc) ==
  \/ Contains(netloc, "[") /\ ~Contains(netloc, "]")
  \/ Contains(netloc, "]") /\ ~Contains(netloc, "[")

\* _checknetloc: ValueError when a non-ASCII netloc NFKC-normalises to text
\* holding one of / ? # @ :
InvalidNfkc(netloc) == \E i \in 1..Len(netloc) : netloc[i] \in NfkcDelimiter

\* the fragment and the query are cut off the text after the netloc; the
\* netloc checks raise ValueError
ParseAfterNetloc(scheme, n) ==
  IF InvalidIPv6(n.netloc) \/ InvalidNfkc(n.netloc)
    THEN [raised |-> TRUE, scheme |-> scheme, netloc |-> <<>>, path |-> <<>>]
    ELSE [raised |-> FALSE, scheme |-> scheme, netloc |-> n.netloc,
          path |-> BeforeFirst(BeforeFirst(n.rest, "#"), "?")]

ParseAfterScheme(s) == ParseAfterNetloc(s.scheme, SplitNetloc(s.rest))

urlparse(url) == ParseAfterScheme(SplitScheme(url))

----------------------------------------------------------------------------
(* get_domain_name, src/app.py:17-32                                       *)

HTTP == <<"h", "t", "t", "p", ":", "/", "/">>
HTTPS == <<"h", "t", "t", "p", "s", ":", "/", "/">>
WWW == <<"w", "w", "w", ".">>
QRCODE == <<"q", "r", "c", "o", "d", "e">>

ExampleCom == <<"e","x","a","m","p","l","e",".","c","o","m">>
\* "https://www.Example.com:8080/path"
ExampleFull ==
  HTTPS \o WWW \o <<"E","x","a","m","p","l","e",".","c","o","m">>
        \o <<":","8","0","8","0","/","p","a","t","h">>
\* "a.www.b.com"
InnerWww == <<"a", ".">> \o WWW \o <<"b", ".", "c", "o", "m">>

\* lines 20-21
WithScheme(url) ==
  IF StartsWith(url, HTTP) \/ StartsWith(url, HTTPS) THEN url ELSE HTTPS \o url

\* line 24: parsed.netloc or parsed.path
NetlocOrPath(parsed) == IF parsed.netloc # <<>> THEN parsed.netloc ELSE parsed.path

\* line 25
StripWww(domain) == Replace(domain, WWW, <<>>)

\* line 26
StripPort(domain) == BeforeFirst(domain, ":")

\* Sanitize with the pattern \s in place of [^\w\-.]: only whitespace is replaced
SanitizeWhitespaceOnly(domain) ==
  [i \in 1..Len(domain) |-> IF domain[i] \in Whitespace THEN "_" ELSE domain[i]]

\* line 27: re.sub(r'[^\w\-.]', '_', domain)
Sanitize(domain) ==
  [i \in 1..Len(domain) |->
     IF IsWordChar(domain[i]) \/ domain[i] \in {"-", "."} THEN domain[i] ELSE "_"]

\* line 28
StripDots(domain) == RStrip(domain, {"."})

\* line 23; lines 20-30 leave the try with a ValueError when urlparse raises
Parsed(url) ==
  LET p == urlparse(WithScheme(url)) IN
  [raised |-> p.raised, propagated |-> p.raised, netloc |-> p.netloc,
   path |-> p.path]

\* line 24
WithHost(p) == [host |-> NetlocOrPath(p)] @@ p

\* lines 25-26
WithDomain(h) == [domain |-> StripPort(StripWww(h.host))] @@ h

\* lines 27-28
WithSafe(d) == [safe |-> StripDots(Sanitize(d.domain))] @@ d

\* line 30
WithResult(x) == [result |-> IF x.safe # <<>> THEN x.safe ELSE QRCODE] @@ x

\* a call that raised has no intermediate values and returns nothing
Unfinished(p) ==
  [host |-> <<>>, domain |-> <<>>, safe |-> <<>>, result |-> <<>>] @@ p

\* lines 20-30, the body of the try: the intermediate values and the value
\* returned, or raised = TRUE when urlparse raises
DomainSteps(p) ==
  IF p.raised THEN Unfinished(p)
  ELSE WithResult(WithSafe(WithDomain(WithHost(p))))

DomainBody(url) == DomainSteps(Parsed(url))

\* lines 31-32: except Exception: return "qrcode"
Caught(b) ==
  IF b.raised THEN [b EXCEPT !.propagated = FALSE, !.result = QRCODE] ELSE b

\* DomainCall without the except clause of lines 31-32: the ValueError of
\* urlparse leaves the function
DomainCallNoExcept(url) == DomainBody(url)

\* lines 19-32, the try with its except: propagated says whether an exception
\* leaves the function
DomainCall(url) == Caught(DomainBody(url))

get_domain_name(url) == DomainCall(url).result

----------------------------------------------------------------------------
(* Python values read from the JSON body: a str, None or an int.           *)

PyStr(s) == [t |-> "str", s |-> s]
PyNone == [t |-> "None", s |-> <<>>]
PyInt5 == [t |-> "int", s |-> <<"5">>]
\* a key the JSON object does not hold
Absent == [t |-> "absent", s |-> <<>>]

\* dict.get(key, default)
DictGet(value, default) == IF value = Absent THEN default ELSE value

\* str(v), as an f-string formats it
PyFormat(v) ==
  IF v.t = "None" THEN <<"N", "o", "n", "e">> ELSE v.s

PNG == <<"P", "N", "G">>
JPEG == <<"J", "P", "E", "G">>
SVG == <<"S", "V", "G">>

FmtPng == PyStr(<<"p", "n", "g">>)
FmtJpeg == PyStr(<<"j", "p", "e", "g">>)
FmtSvg == PyStr(<<"s", "v", "g">>)
FmtStyled == PyStr(<<"s", "t", "y", "l", "e", "d">>)
ThemeMatrix == PyStr(<<"m", "a", "t", "r", "i", "x">>)
ThemeCyberpunk == PyStr(<<"c", "y", "b", "e", "r", "p", "u", "n", "k">>)
ThemeTerminal == PyStr(<<"t", "e", "r", "m", "i", "n", "a", "l">>)

----------------------------------------------------------------------------
(* The QR encoder (qrcode.QRCode): add_data, then make(fit=True), which    *)
(* raises DataOverflowError when the data fits no symbol version at the    *)
(* error-correction level.  The library's limits (2953 bytes at level L,   *)
(* 1273 at level H) are scaled down to CapacityL and CapacityH so that     *)
(* short strings reach them.                                               *)

CapacityL == 24
CapacityH == 12
BoxSize == 10
Border == 4

Utf8Width(c) == IF c = "U2100" THEN 3 ELSE IF c \in NonAscii THEN 2 ELSE 1

RECURSIVE Utf8Len(_)
Utf8Len(s) == IF s = <<>> THEN 0 ELSE Utf8Width(Head(s)) + Utf8Len(Tail(s))

Capacity(level) == IF level = "H" THEN CapacityH ELSE CapacityL

\* lines 36-43, 87-94, 99-106
QRCode(url, level) ==
  [raised |-> Utf8Len(url) > Capacity(level), payload |-> url, ec |-> level,
   box_size |-> BoxSize, border |-> Border]

NoImage ==
  [payload |-> <<>>, ec |-> "-", box_size |-> 0, border |-> 0, factory |-> "-",
   drawer |-> "-", colors |-> "-", mode |-> "-"]

\* qr.make_image(...)
MakeImage(qr, factory, drawer, colors, mode) ==
  [payload |-> qr.payload, ec |-> qr.ec, box_size |-> qr.box_size,
   border |-> qr.border, factory |-> factory, drawer |-> drawer,
   colors |-> colors, mode |-> mode]

\* create_styled_qr with line 73 falling into the matrix branch
ThemeStyleMatrixDefault(theme) ==
  IF theme = ThemeCyberpunk
    THEN [factory |-> "StyledPilImage", drawer |-> "CircleModuleDrawer",
          colors |-> "radial (10,10,35) (255,0,255) (0,255,255)"]
  ELSE IF theme = ThemeTerminal
    THEN [factory |-> "StyledPilImage", drawer |-> "GappedSquareModuleDrawer",
          colors |-> "solid (30,30,30) (0,255,0)"]
  ELSE [factory |-> "StyledPilImage", drawer |-> "RoundedModuleDrawer",
        colors |-> "solid (0,0,0) (0,255,65)"]

\* lines 45-74: the image factory, module drawer and colours per theme
ThemeStyle(theme) ==
  IF theme = ThemeMatrix
    THEN [factory |-> "StyledPilImage", drawer |-> "RoundedModuleDrawer",
          colors |-> "solid (0,0,0) (0,255,65)"]
  ELSE IF theme = ThemeCyberpunk
    THEN [factory |-> "StyledPilImage", drawer |-> "CircleModuleDrawer",
          colors |-> "radial (10,10,35) (255,0,255) (0,255,255)"]
  ELSE IF theme = ThemeTerminal
    THEN [factory |-> "StyledPilImage", drawer |-> "GappedSquareModuleDrawer",
          colors |-> "solid (30,30,30) (0,255,0)"]
  ELSE [factory |-> "PilImage", drawer |-> "square", colors |-> "black on white"]

\* lines 45-76: make_image with the style of the theme
StyledImage(qr, st) ==
  IF qr.raised THEN [raised |-> TRUE, img |-> NoImage]
  ELSE [raised |-> FALSE,
        img |-> MakeImage(qr, st.factory, st.drawer, st.colors,
                          IF st.factory = "PilImage" THEN "1" ELSE "RGB")]

\* lines 34-76
create_styled_qr(url, theme) == StyledImage(QRCode(url, "H"), ThemeStyle(theme))

\* line 84 without the theme
StyledFilenameNoTheme(domain, theme) == domain \o <<".", "p", "n", "g">>

\* line 84: f"{domain}_{theme}.png"
StyledFilename(domain, theme) ==
  domain \o <<"_">> \o PyFormat(theme) \o <<".", "p", "n", "g">>

NoBytes == [container |-> <<>>, image |-> NoImage]

\* lines 82-125, with domain the value of line 80: raised with
\* DataOverflowError, or (img_io, filename, img_format)
Render(url, output_format, theme, domain) ==
  LET plainQr == QRCode(url, "L")
      plain == MakeImage(plainQr, "PilImage", "square", "black on white", "1")
      Returns(img, filename, img_format) ==
        [raised |-> FALSE, url |-> url,
         img_io |-> [container |-> img_format, image |-> img],
         filename |-> filename, img_format |-> img_format]
      Raises == [raised |-> TRUE, url |-> url, img_io |-> NoBytes,
                 filename |-> <<>>, img_format |-> <<>>]
      Styled(styled) ==
        IF styled.raised THEN Raises
        ELSE Returns(styled.img, StyledFilename(domain, theme), PNG)
  IN IF output_format = FmtStyled
       THEN Styled(create_styled_qr(url, theme))
     ELSE IF output_format = FmtSvg
       THEN IF plainQr.raised THEN Raises
            ELSE Returns(MakeImage(plainQr, "SvgPathImage", "path",
                                   "black on white", "-"),
                         domain \o <<".", "s", "v", "g">>, SVG)
     ELSE IF plainQr.raised THEN Raises
     ELSE IF output_format = FmtJpeg
       THEN Returns([plain EXCEPT !.mode = "RGB"],
                    domain \o <<".", "j", "p", "e", "g">>, JPEG)
       ELSE Returns(plain, domain \o <<".", "p", "n", "g">>, PNG)

\* lines 78-125
generate_qr_code(url, output_format, theme) ==
  Render(url, output_format, theme, get_domain_name(url))

----------------------------------------------------------------------------
(* The handlers of POST /generate and POST /download, src/app.py:131-185.  *)
(* A request body is a JSON object with the keys url, format and theme,    *)
(* each possibly Absent, or JSON null (NullBody), for which request.json   *)
(* is None.  jsonify and send_file are taken to build the response they    *)
(* are asked for.                                                          *)

NullBody == [object |-> FALSE, url |-> Absent, format |-> Absent, theme |-> Absent]
JsonObject(url, format, theme) ==
  [object |-> TRUE, url |-> url, format |-> format, theme |-> theme]

NoArgs == [raised |-> FALSE, message |-> "", url |-> <<>>,
           output_format |-> PyNone, theme |-> PyNone]

\* lines 134-137 with line 135 lacking .strip()
ReadArgsNoStrip(data) ==
  LET url == DictGet(data.url, PyStr(<<>>)) IN
  IF ~data.object
    THEN [NoArgs EXCEPT !.raised = TRUE,
            !.message = "'NoneType' object has no attribute 'get'"]
  ELSE IF url.t # "str"
    THEN [NoArgs EXCEPT !.raised = TRUE,
            !.message = IF url.t = "None"
                          THEN "'NoneType' object has no attribute 'strip'"
                          ELSE "'int' object has no attribute 'strip'"]
  ELSE [raised |-> FALSE, message |-> "", url |-> url.s,
        output_format |-> DictGet(data.format, FmtPng),
        theme |-> DictGet(data.theme, PyNone)]

\* lines 134-137 (and 165-168): the three values read from request.json, or the
\* AttributeError raised on a body that is no object or a url that is no str
ReadArgs(data) ==
  LET url == DictGet(data.url, PyStr(<<>>)) IN
  IF ~data.object
    THEN [NoArgs EXCEPT !.raised = TRUE,
            !.message = "'NoneType' object has no attribute 'get'"]
  ELSE IF url.t # "str"
    THEN [NoArgs EXCEPT !.raised = TRUE,
            !.message = IF url.t = "None"
                          THEN "'NoneType' object has no attribute 'strip'"
                          ELSE "'int' object has no attribute 'strip'"]
  ELSE [raised |-> FALSE, message |-> "", url |-> Strip(url.s),
        output_format |-> DictGet(data.format, FmtPng),
        theme |-> DictGet(data.theme, PyNone)]

NoResponse ==
  [status |-> 0, hasError |-> FALSE, error |-> "", success |-> FALSE,
   mediaType |-> <<>>, filename |-> <<>>, attachment |-> FALSE,
   encoding |-> "-", bytes |-> NoBytes]

\* jsonify({'error': message}), status
ErrorResponse(message, status) ==
  [NoResponse EXCEPT !.status = status, !.hasError = TRUE, !.error = message]

\* lines 140 and 171
UrlRequired == ErrorResponse("URL is required", 400)

\* line 160 without its status: Flask then answers 200
ExceptionResponseNoStatus(message) == ErrorResponse(message, 200)

\* lines 159-160 and 184-185
ExceptionResponse(message) == ErrorResponse(message, 500)

ImagePrefix == <<"i", "m", "a", "g", "e", "/">>
SvgXml == <<"s", "v", "g", "+", "x", "m", "l">>

\* line 175 without the SVG case
MimetypeLowerOnly(img_format) == ImagePrefix \o Lower(img_format)

\* line 175
Mimetype(img_format) ==
  IF img_format = SVG THEN ImagePrefix \o SvgXml
  ELSE ImagePrefix \o Lower(img_format)

\* lines 145-157: {success, image: data:<media type>;base64,<bytes>, filename};
\* lines 148-151 choose the media type
GenerateSuccess(r) ==
  [NoResponse EXCEPT !.status = 200, !.success = TRUE,
     !.mediaType = IF r.img_format = SVG THEN ImagePrefix \o SvgXml
                   ELSE ImagePrefix \o Lower(r.img_format),
     !.filename = r.filename, !.encoding = "base64", !.bytes = r.img_io]

\* lines 175-182: send_file(img_io, mimetype, as_attachment, download_name)
DownloadSuccess(r) ==
  [NoResponse EXCEPT !.status = 200, !.mediaType = Mimetype(r.img_format),
     !.filename = r.filename, !.attachment = TRUE, !.encoding = "raw",
     !.bytes = r.img_io]

\* str(e) of the DataOverflowError of make(fit=True)
OverflowMessage == ""

\* What one run of a handler did: the response, the calls of generate_qr_code
\* and the exception caught, if any.
Outcome(resp, compose, raised, message) ==
  [response |-> resp, compose |-> compose, raised |-> raised, message |-> message]

\* one call generate_qr_code(url, output_format, theme) and what came of it
Call(a, r) ==
  <<[url |-> a.url, output_format |-> a.output_format, theme |-> a.theme,
     result |-> r]>>

\* line 139: not url
UrlMissing(url) == url = <<>>

\* lines 142-160: the answer once generate_qr_code has returned or raised
GenerateComposed(a, r) ==
  IF r.raised
    THEN Outcome(ExceptionResponse(OverflowMessage), Call(a, r), TRUE, OverflowMessage)
    ELSE Outcome(GenerateSuccess(r), Call(a, r), FALSE, "")

\* lines 139-160
GenerateArgs(a) ==
  IF a.raised THEN Outcome(ExceptionResponse(a.message), <<>>, TRUE, a.message)
  ELSE IF UrlMissing(a.url) THEN Outcome(UrlRequired, <<>>, FALSE, "")
  ELSE GenerateComposed(a, generate_qr_code(a.url, a.output_format, a.theme))

\* lines 131-160
generate(data) == GenerateArgs(ReadArgs(data))

\* lines 173-185
DownloadComposed(a, r) ==
  IF r.raised
    THEN Outcome(ExceptionResponse(OverflowMessage), Call(a, r), TRUE, OverflowMessage)
    ELSE Outcome(DownloadSuccess(r), Call(a, r), FALSE, "")

\* lines 170-185
DownloadArgs(a) ==
  IF a.raised THEN Outcome(ExceptionResponse(a.message), <<>>, TRUE, a.message)
  ELSE IF UrlMissing(a.url) THEN Outcome(UrlRequired, <<>>, FALSE, "")
  ELSE DownloadComposed(a, generate_qr_code(a.url, a.output_format, a.theme))

\* lines 162-185
download(data) == DownloadArgs(ReadArgs(data))

----------------------------------------------------------------------------
(* The request bodies a client sends.                                      *)

\* "www.example.com": fits a symbol at level L only
WwwExampleCom == WWW \o ExampleCom

UrlValues ==
  {Absent, PyNone, PyInt5,
   PyStr(<<>>), PyStr(<<" ", " ">>), PyStr(<<" ", "a", ".", "b", " ">>),
   PyStr(<<"U00E9", ".", "i", "o">>),
   PyStr(ExampleCom), PyStr(WwwExampleCom), PyStr(ExampleFull)}

FormatValues ==
  {Absent, PyNone, FmtPng, FmtJpeg, FmtSvg, FmtStyled, PyStr(<<"g", "i", "f">>)}

ThemeValues ==
  {Absent, PyInt5, ThemeMatrix, ThemeCyberpunk, ThemeTerminal,
   PyStr(<<"n", "e", "o", "n">>), PyStr(<<".", ".", "/", "x", " ", "y">>)}

Bodies ==
  {NullBody} \cup
  {JsonObject(u, f, t) : u \in UrlValues, f \in FormatValues, t \in ThemeValues}

NotCalled ==
  [called |-> FALSE, raised |-> FALSE, propagated |-> FALSE, netloc |-> <<>>,
   path |-> <<>>, host |-> <<>>, domain |-> <<>>, safe |-> <<>>, result |-> <<>>]

\* state the other specifications leave alone
HttpIdle == body = "none" /\ response = "none" /\ calls = "none"
ConcIdle == sent = "none" /\ request = "none" /\ pc = "none" /\ loc = "none"
              /\ reply = "none"

NameIdle == nameIn = <<>> /\ nameOut = NotCalled

NoRun == Outcome(NoResponse, <<>>, FALSE, "")

Init ==
  /\ body \in Bodies
  /\ response = [generate |-> NoResponse, download |-> NoResponse]
  /\ calls = [generate |-> NoRun, download |-> NoRun]
  /\ NameIdle /\ ConcIdle

\* POST /generate with the body
Generate ==
  /\ response.generate = NoResponse
  /\ calls' = [calls EXCEPT !.generate = generate(body)]
  /\ response' = [response EXCEPT !.generate = calls'.generate.response]
  /\ UNCHANGED <<body, nameVars, concVars>>

\* POST /download with the body
Download ==
  /\ response.download = NoResponse
  /\ calls' = [calls EXCEPT !.download = download(body)]
  /\ response' = [response EXCEPT !.download = calls'.download.response]
  /\ UNCHANGED <<body, nameVars, concVars>>

Next == Generate \/ Download

Spec == Init /\ [][Next]_vars

----------------------------------------------------------------------------
(* The inputs of get_domain_name: every concatenation of at most MaxTokens *)
(* tokens, and the examples of the documentation.                          *)

MaxTokens == 3

NameTokens ==
  {HTTPS, HTTP, WWW, <<"a">>, <<".">>, <<":">>, <<"8">>, <<"/">>, <<"?">>,
   <<" ">>, <<"-">>, <<"[">>, <<"U00E9">>, <<"U0663">>, <<"U2100">>}

RECURSIVE Concat(_)
Concat(ts) == IF ts = <<>> THEN <<>> ELSE Head(ts) \o Concat(Tail(ts))

Examples == {ExampleCom, ExampleFull, InnerWww}

InitName ==
  /\ \/ \E n \in 0..MaxTokens :
          \E ts \in [1..n -> NameTokens] : nameIn = Concat(ts)
     \/ nameIn \in Examples
  /\ nameOut = NotCalled
  /\ HttpIdle /\ ConcIdle

\* one call get_domain_name(nameIn)
CallGetDomainName ==
  /\ ~nameOut.called
  /\ nameOut' = [called |-> TRUE] @@ DomainCall(nameIn)
  /\ UNCHANGED <<nameIn, httpVars, concVars>>

NextName == CallGetDomainName

SpecName == InitName /\ [][NextName]_vars

----------------------------------------------------------------------------
(* Requests handled concurrently, one thread each.  Flask's request is a   *)
(* context-local proxy: each thread sees the request it was started for.   *)
(* The locals of a handler (url, output_format, theme, the result of       *)
(* generate_qr_code, the exception caught) live in its own frame.  The     *)
(* module keeps no other state: app is not written after start-up.         *)

NThreads == 2
Threads == 1..NThreads

ConcBodies ==
  {NullBody,
   JsonObject(PyStr(<<" ", " ">>), FmtSvg, Absent),
   JsonObject(PyStr(ExampleCom), Absent, Absent),
   JsonObject(PyStr(<<" ", "a", ".", "b", " ">>), FmtStyled, ThemeMatrix),
   JsonObject(PyStr(<<"U00E9", ".", "i", "o">>), FmtSvg, ThemeTerminal),
   JsonObject(PyStr(WwwExampleCom), FmtStyled, PyStr(<<"n", "e", "o", "n">>))}

NoRequest == [endpoint |-> "-", json |-> NullBody]

NoResult == [raised |-> FALSE, url |-> <<>>, img_io |-> NoBytes,
             filename |-> <<>>, img_format |-> <<>>]

NoLocals == [url |-> <<>>, output_format |-> PyNone, theme |-> PyNone,
             result |-> NoResult, message |-> ""]

\* request as one module-level variable: every handler reads the request of
\* the highest-numbered thread that holds one
CurrentRequestShared(t) ==
  LET holders == {u \in Threads : request[u] # NoRequest} IN
  request[CHOOSE u \in holders : \A v \in holders : v <= u]

\* flask.request inside the handler run by thread t (lines 134, 165)
CurrentRequest(t) == request[t]

InitConc ==
  /\ sent = [t \in Threads |-> NoRequest]
  /\ request = [t \in Threads |-> NoRequest]
  /\ pc = [t \in Threads |-> "idle"]
  /\ loc = [t \in Threads |-> NoLocals]
  /\ reply = [t \in Threads |-> NoResponse]
  /\ NameIdle /\ HttpIdle

\* a client posts a body to /generate or /download; the server routes it to
\* a thread (lines 131, 162)
Receive(t) ==
  /\ pc[t] = "idle"
  /\ \E e \in {"generate", "download"}, b \in ConcBodies :
       /\ sent' = [sent EXCEPT ![t] = [endpoint |-> e, json |-> b]]
       /\ request' = [request EXCEPT ![t] = [endpoint |-> e, json |-> b]]
  /\ pc' = [pc EXCEPT ![t] = "read"]
  /\ UNCHANGED <<loc, reply, nameVars, httpVars>>

\* lines 134-137 and 165-168
ReadRequest(t) ==
  /\ pc[t] = "read"
  /\ LET a == ReadArgs(CurrentRequest(t).json) IN
       IF a.raised
         THEN /\ loc' = [loc EXCEPT ![t].message = a.message]
              /\ pc' = [pc EXCEPT ![t] = "except"]
         ELSE /\ loc' = [loc EXCEPT ![t].url = a.url,
                                    ![t].output_format = a.output_format,
                                    ![t].theme = a.theme]
              /\ pc' = [pc EXCEPT ![t] = "validate"]
  /\ UNCHANGED <<sent, request, reply, nameVars, httpVars>>

\* lines 139-140 and 170-171
Validate(t) ==
  /\ pc[t] = "validate"
  /\ IF UrlMissing(loc[t].url)
       THEN /\ reply' = [reply EXCEPT ![t] = UrlRequired]
            /\ pc' = [pc EXCEPT ![t] = "done"]
       ELSE /\ pc' = [pc EXCEPT ![t] = "compose"]
            /\ UNCHANGED reply
  /\ UNCHANGED <<sent, request, loc, nameVars, httpVars>>

\* the locals and the program counter after line 142 (173)
Composed(t, r) ==
  IF r.raised
    THEN /\ loc' = [loc EXCEPT ![t].message = OverflowMessage]
         /\ pc' = [pc EXCEPT ![t] = "except"]
    ELSE /\ loc' = [loc EXCEPT ![t].result = r]
         /\ pc' = [pc EXCEPT ![t] = "respond"]

\* lines 142 and 173
Compose(t) ==
  /\ pc[t] = "compose"
  /\ Composed(t, generate_qr_code(loc[t].url, loc[t].output_format, loc[t].theme))
  /\ UNCHANGED <<sent, request, reply, nameVars, httpVars>>

\* lines 145-157 and 175-182
Respond(t) ==
  /\ pc[t] = "respond"
  /\ reply' = [reply EXCEPT ![t] =
                 IF CurrentRequest(t).endpoint = "generate"
                   THEN GenerateSuccess(loc[t].result)
                   ELSE DownloadSuccess(loc[t].result)]
  /\ pc' = [pc EXCEPT ![t] = "done"]
  /\ UNCHANGED <<sent, request, loc, nameVars, httpVars>>

\* lines 159-160 and 184-185
Except(t) ==
  /\ pc[t] = "except"
  /\ reply' = [reply EXCEPT ![t] = ExceptionResponse(loc[t].message)]
  /\ pc' = [pc EXCEPT ![t] = "done"]
  /\ UNCHANGED <<sent, request, loc, nameVars, httpVars>>

NextConc ==
  \E t \in Threads :
    \/ Receive(t)
    \/ ReadRequest(t)
    \/ Validate(t)
    \/ Compose(t)
    \/ Respond(t)
    \/ Except(t)

SpecConc == InitConc /\ [][NextConc]_vars

----------------------------------------------------------------------------
(* Properties of get_domain_name, checked under SpecName.                  *)

\* C3: get_domain_name is total: for every input no exception leaves it and
\* the string it returns is not empty; it returns "qrcode" whenever urlparse
\* raises or the sanitized name is empty, and in particular for the input "".
NameTotal ==
  nameOut.called =>
    /\ ~nameOut.propagated
    /\ nameOut.result # <<>>
    /\ (nameOut.raised \/ nameOut.safe = <<>>) => nameOut.result = QRCODE
    /\ nameIn = <<>> => nameOut.result = QRCODE

\* the call on the empty string has returned "qrcode"
NameTotalWitness ==
  nameOut.called /\ nameIn = <<>> /\ nameOut.result = QRCODE

\* a call in which urlparse raised and "qrcode" came back
NameRaisedWitness ==
  nameOut.called /\ nameOut.raised /\ nameOut.result = QRCODE

\* The host of the claim: "www." taken off the front only ...
LeadingWwwRemoved(host) == IF StartsWith(host, WWW) THEN Drop(host, Len(WWW)) ELSE host
\* ... and the port suffix cut where the code cuts it, at the first ":"
PortRemoved(host) == BeforeFirst(host, ":")

\* C4: when the host component is not empty, the name before sanitization is
\* the host without a leading "www." label and without its ":port" suffix, and
\* otherwise unchanged: a "www." that is not at the start of the host is kept.
LeadingWwwOnly ==
  (nameOut.called /\ ~nameOut.raised /\ nameOut.netloc # <<>>) =>
    nameOut.domain = PortRemoved(LeadingWwwRemoved(nameOut.netloc))

\* C4, the documented example: "https://www.Example.com:8080/path" gives
\* "Example.com"
ExampleFullName ==
  (nameOut.called /\ nameIn = ExampleFull) =>
    nameOut.result = <<"E","x","a","m","p","l","e",".","c","o","m">>

AsciiNameChars == LowerCase \cup UpperCase \cup Digits \cup {"_", ".", "-"}

EndsWithDot(s) == s # <<>> /\ s[Len(s)] = "."

\* C5 as stated: every character of the returned name is in [A-Za-z0-9_.-]
\* (a non-ASCII letter or digit has become "_"), and the name does not end
\* with ".".
AsciiOnlyName ==
  nameOut.called =>
    /\ \A i \in 1..Len(nameOut.result) : nameOut.result[i] \in AsciiNameChars
    /\ ~EndsWithDot(nameOut.result)

\* C5 as amended: every character of the returned name is a word character
\* in the Unicode sense of \w (ASCII letters, digits and "_", and also the
\* non-ASCII letters and digits, which are kept), "." or "-"; each other
\* character of the host has been replaced by "_", position by position; and
\* the name does not end with ".".
UnicodeWordName ==
  nameOut.called =>
    /\ \A i \in 1..Len(nameOut.result) :
         IsWordChar(nameOut.result[i]) \/ nameOut.result[i] \in {".", "-"}
    /\ ~EndsWithDot(nameOut.result)
    /\ (~nameOut.raised /\ nameOut.safe # <<>>) =>
         /\ Len(nameOut.result) <= Len(nameOut.domain)
         /\ \A i \in 1..Len(nameOut.result) :
              nameOut.result[i] =
                IF nameOut.domain[i] \in AsciiNameChars \cup UnicodeWord
                  THEN nameOut.domain[i] ELSE "_"
         /\ \A i \in (Len(nameOut.result) + 1)..Len(nameOut.domain) :
              nameOut.domain[i] = "."

\* a returned name that keeps a non-ASCII letter, has a replaced space and
\* lost a trailing "."
UnicodeWordNameWitness ==
  /\ nameOut.called /\ ~nameOut.raised
  /\ \E i \in 1..Len(nameOut.result) : nameOut.result[i] = "U00E9"
  /\ \E i \in 1..Len(nameOut.result) :
       nameOut.domain[i] = " " /\ nameOut.result[i] = "_"

----------------------------------------------------------------------------
(* Properties of the handlers, checked under Spec.                         *)

Endpoints == {"generate", "download"}

Answered(e) == response[e] # NoResponse

\* the url key is absent, or holds the empty string or only whitespace
BlankUrl ==
  /\ body.object
  /\ \/ body.url = Absent
     \/ body.url.t = "str" /\ \A i \in 1..Len(body.url.s) : body.url.s[i] \in Whitespace

\* the url key holds a string that is not empty once trimmed
UsableUrl ==
  /\ body.object
  /\ body.url.t = "str"
  /\ \E i \in 1..Len(body.url.s) : body.url.s[i] \notin Whitespace

\* C1: on /generate and on /download, a body whose url is absent, empty or
\* only whitespace is answered 400 with {error: "URL is required"}, whatever
\* its format and theme, and generate_qr_code is not called.
BlankUrlRejected ==
  \A e \in Endpoints :
    (Answered(e) /\ BlankUrl) =>
      /\ response[e] = [NoResponse EXCEPT !.status = 400, !.hasError = TRUE,
                                          !.error = "URL is required"]
      /\ calls[e].compose = <<>>

\* both endpoints have rejected a whitespace url sent with format styled
BlankUrlRejectedWitness ==
  /\ body.object /\ body.url = PyStr(<<" ", " ">>) /\ body.format = FmtStyled
  /\ \A e \in Endpoints : Answered(e) /\ response[e].status = 400

\* C2: a request is answered with status 200, 400 or 500; when an exception
\* was raised the answer is 500 with {error: <message>} and neither image
\* nor file name; generate_qr_code is called at most once; and a 200 is given
\* only after a call of generate_qr_code that did not raise.
OneAttemptOneAnswer ==
  \A e \in Endpoints :
    Answered(e) =>
      /\ response[e].status \in {200, 400, 500}
      /\ calls[e].raised =>
           response[e] = [NoResponse EXCEPT !.status = 500, !.hasError = TRUE,
                                            !.error = calls[e].message]
      /\ Len(calls[e].compose) <= 1
      /\ (calls[e].compose # <<>> /\ calls[e].compose[1].result.raised) =>
           calls[e].raised
      /\ response[e].status = 200 =>
           /\ Len(calls[e].compose) = 1
           /\ ~calls[e].compose[1].result.raised
           /\ ~calls[e].raised

\* a request whose only call of generate_qr_code raised and that got a 500
OneAttemptOneAnswerWitness ==
  /\ Answered("download")
  /\ Len(calls.download.compose) = 1
  /\ calls.download.compose[1].result.raised
  /\ response.download.status = 500

Ext(kind) ==
  IF kind = SVG THEN <<".", "s", "v", "g">>
  ELSE IF kind = JPEG THEN <<".", "j", "p", "e", "g">>
  ELSE <<".", "p", "n", "g">>

\* C6: when generate_qr_code returns, with derivedName = get_domain_name(url):
\* styled gives "{derivedName}_{theme}.png" and PNG, svg gives
\* "{derivedName}.svg" and SVG, jpeg gives "{derivedName}.jpeg" and JPEG, any
\* other format gives "{derivedName}.png" and PNG; the bytes are written in
\* that container, and outside styled the name does not depend on the theme.
FilenameAndKind ==
  \A e \in Endpoints :
    \A i \in 1..Len(calls[e].compose) :
      LET c == calls[e].compose[i]
          r == c.result
          derivedName == get_domain_name(c.url)
          kind == IF c.output_format = FmtSvg THEN SVG
                  ELSE IF c.output_format = FmtJpeg THEN JPEG ELSE PNG
      IN ~r.raised =>
           /\ r.img_format = kind
           /\ r.img_io.container = kind
           /\ r.filename =
                IF c.output_format = FmtStyled
                  THEN derivedName \o <<"_">> \o PyFormat(c.theme) \o Ext(kind)
                  ELSE derivedName \o Ext(kind)

\* a styled call with theme matrix that returned "example.com_matrix.png"
FilenameAndKindWitness ==
  /\ Answered("generate")
  /\ Len(calls.generate.compose) = 1
  /\ calls.generate.compose[1].output_format = FmtStyled
  /\ calls.generate.compose[1].theme = ThemeMatrix
  /\ calls.generate.compose[1].result.filename =
       ExampleCom \o <<"_", "m", "a", "t", "r", "i", "x", ".", "p", "n", "g">>

MediaTypeOf(kind) ==
  IF kind = SVG THEN <<"i","m","a","g","e","/","s","v","g","+","x","m","l">>
  ELSE IF kind = JPEG THEN <<"i","m","a","g","e","/","j","p","e","g">>
  ELSE <<"i","m","a","g","e","/","p","n","g">>

\* C7: for a body whose trimmed url is not empty, /generate and /download
\* give the same status and the same file name, and the media type of the
\* data URI is the Content-Type of the download: image/svg+xml for SVG,
\* image/png or image/jpeg otherwise; the download is an attachment under
\* that file name.  url "example.com" with format "jpeg" gives 200,
\* image/jpeg and example.com.jpeg.
EndpointsAgree ==
  (Answered("generate") /\ Answered("download") /\ UsableUrl) =>
    /\ response.generate.status = response.download.status
    /\ response.generate.filename = response.download.filename
    /\ response.generate.mediaType = response.download.mediaType
    /\ response.download.status = 200 =>
         /\ response.download.mediaType =
              MediaTypeOf(calls.download.compose[1].result.img_format)
         /\ response.download.attachment
         /\ response.download.filename = calls.download.compose[1].result.filename
         /\ response.download.bytes = response.generate.bytes
    /\ (body.url = PyStr(ExampleCom) /\ body.format = FmtJpeg) =>
         /\ response.download.status = 200
         /\ response.download.mediaType = MediaTypeOf(JPEG)
         /\ response.download.filename = ExampleCom \o <<".", "j", "p", "e", "g">>

\* both endpoints have answered url "example.com", format "jpeg" with 200
EndpointsAgreeWitness ==
  /\ body.object /\ body.url = PyStr(ExampleCom) /\ body.format = FmtJpeg
  /\ \A e \in Endpoints : Answered(e) /\ response[e].status = 200

KnownFormats == {FmtPng, FmtJpeg, FmtSvg, FmtStyled}
KnownThemes == {ThemeMatrix, ThemeCyberpunk, ThemeTerminal}

Handler(e, data) == IF e = "generate" THEN generate(data) ELSE download(data)

PlainPng(resp) ==
  /\ resp.bytes.container = PNG
  /\ resp.bytes.image.factory = "PilImage"
  /\ resp.bytes.image.drawer = "square"
  /\ resp.bytes.image.colors = "black on white"

\* C8: an unknown format or theme causes no error.  For a usable url, a
\* format outside {png, jpeg, svg, styled} is answered exactly as format png
\* is: a plain black-on-white PNG.  Format styled with a theme that is absent
\* or outside {matrix, cyberpunk, terminal} is answered with a PNG of square
\* modules in black on white.  The only error left is the encoder's own (the
\* url fits no symbol), which the known format or theme gets as well.
UnknownValuesFallBack ==
  \A e \in Endpoints :
    (Answered(e) /\ UsableUrl) =>
      /\ DictGet(body.format, FmtPng) \notin KnownFormats =>
           /\ response[e] = Handler(e, [body EXCEPT !.format = FmtPng]).response
           /\ response[e].status = 200 => PlainPng(response[e])
           /\ response[e].status # 200 =>
                /\ calls[e].compose # <<>>
                /\ calls[e].compose[1].result.raised
      /\ (body.format = FmtStyled /\ DictGet(body.theme, PyNone) \notin KnownThemes) =>
           /\ response[e].status = 200 =>
                /\ PlainPng(response[e])
                /\ response[e].mediaType = MediaTypeOf(PNG)
           /\ response[e].status # 200 =>
                /\ calls[e].compose # <<>>
                /\ calls[e].compose[1].result.raised
                /\ Handler(e, [body EXCEPT !.theme = ThemeMatrix]).response
                     = response[e]

\* format styled with the unknown theme "neon" was answered with a PNG
UnknownValuesFallBackWitness ==
  /\ UsableUrl /\ body.format = FmtStyled
  /\ body.theme = PyStr(<<"n", "e", "o", "n">>)
  /\ \A e \in Endpoints : Answered(e) /\ response[e].status = 200

\* an unknown format was answered with a PNG
UnknownFormatWitness ==
  /\ UsableUrl /\ body.format = PyStr(<<"g", "i", "f">>)
  /\ \A e \in Endpoints : Answered(e) /\ response[e].status = 200

\* C10: in every 200 answer the file name holds only characters allowed in a
\* derived name (letters, digits, "_", ".", "-"): no path separator, no
\* whitespace, nothing else taken verbatim from the request.
SafeFilename ==
  \A e \in Endpoints :
    (Answered(e) /\ response[e].status = 200) =>
      \A i \in 1..Len(response[e].filename) :
        IsWordChar(response[e].filename[i]) \/ response[e].filename[i] \in {".", "-"}

----------------------------------------------------------------------------
(* Property of concurrent requests, checked under SpecConc.                *)

\* the response the request of thread t gets when it is handled alone
Alone(t) ==
  (IF sent[t].endpoint = "generate" THEN generate(sent[t].json)
   ELSE download(sent[t].json)).response

\* a step leaves the request, the locals and the reply of every thread whose
\* program counter it does not move
OwnStateOnly ==
  \A t \in Threads :
    pc'[t] = pc[t] =>
      request'[t] = request[t] /\ loc'[t] = loc[t] /\ reply'[t] = reply[t]

\* what thread t's handler holds belongs to its own request
OwnRequest(t) ==
  /\ pc[t] \in {"compose", "respond"} => loc[t].url = Strip(sent[t].json.url.s)
  /\ pc[t] = "respond" =>
       /\ loc[t].result.img_io.image.payload = Strip(sent[t].json.url.s)
       /\ loc[t].result.filename =
            generate_qr_code(Strip(sent[t].json.url.s),
                             DictGet(sent[t].json.format, FmtPng),
                             DictGet(sent[t].json.theme, PyNone)).filename
  /\ pc[t] = "done" =>
       /\ reply[t] = Alone(t)
       /\ reply[t].status = 200 =>
            reply[t].bytes.image.payload = Strip(sent[t].json.url.s)

\* C9: however the steps of concurrent requests interleave, the payload given
\* to the QR encoder, the file name and the media type of a response are those
\* of its own request's trimmed url, format and theme, the response is the one
\* the request gets when handled alone, and no step of one request changes
\* what another holds.
NoInterference ==
  /\ [](\A t \in Threads : OwnRequest(t))
  /\ [][OwnStateOnly]_vars

\* two requests with different urls, both answered 200, one of them while
\* the other was still in progress
NoInterferenceWitness ==
  /\ pc[1] = "done" /\ pc[2] = "respond"
  /\ reply[1].status = 200
  /\ sent[1].json.url # sent[2].json.url
  /\ sent[1].endpoint # sent[2].endpoint

====
